---- MODULE Spec2Model ----
(***************************************************************************)
(* Model of the test-flakiness-detector: the detection loop                *)
(* (detectFlakiness), the single-run executor (runTestOnce) and the three  *)
(* API tiers (detect, isFlaky, compileDetector().run) of src/src/detector.ts.*)
(*                                                                         *)
(* One behaviour of the model is one call of one entry point with one      *)
(* options object.  The execution primitive (spawnSync) and the progress   *)
(* sink (@tuulbelt/cli-progress-reporting) are the environment: what they  *)
(* return is chosen when they are called.                                  *)
(***************************************************************************)
EXTENDS Integers, Sequences, FiniteSets, TLC

(***************************************************************************)
(* Bounds of the model (not program constants).                            *)
(***************************************************************************)
\* largest explicit run count explored with every outcome sequence
MaxFlakyRuns == 5
\* a detection is followed for at most this many loop iterations
MaxIter == 10

(***************************************************************************)
(* Program constants.                                                      *)
(***************************************************************************)
DefaultRuns == 10
IsFlakyDefaultRuns == 5
MinRuns == 1
IsFlakyMinRuns == 2
MaxRuns == 1000
ProgressMinRuns == 5

(***************************************************************************)
(* JavaScript values: numbers are rationals n/d, the rest are tags.        *)
(***************************************************************************)
Num(k) == [t |-> "num", n |-> k, d |-> 1]
Frac(a, b) == [t |-> "num", n |-> a, d |-> b]
Undef == [t |-> "undef", n |-> 0, d |-> 1]
Null == [t |-> "null", n |-> 0, d |-> 1]
NaN == [t |-> "nan", n |-> 0, d |-> 1]
Infinity == [t |-> "inf", n |-> 0, d |-> 1]
StrVal == [t |-> "str", n |-> 0, d |-> 1]

\* typeof v === 'number'  (NaN and Infinity are numbers)
IsNumberType(v) == v.t \in {"num", "nan", "inf"}
\* Number.isFinite(v)
IsFinite(v) == v.t = "num"
\* a < b on finite numbers
Lt(a, b) == a.n * b.d < b.n * a.d

\* variant: v || dflt, which also replaces 0 and NaN
Coalesce_Falsy(v, dflt) ==
    IF v.t \in {"undef", "null", "nan"} \/ (v.t = "num" /\ v.n = 0) THEN dflt ELSE v

\* v ?? dflt
Coalesce(v, dflt) == IF v.t \in {"undef", "null"} THEN dflt ELSE v
\* destructuring default  { x = dflt }
DestructDefault(v, dflt) == IF v.t = "undef" THEN dflt ELSE v

(***************************************************************************)
(* Test commands.  A command value is a string, undefined or an object.    *)
(***************************************************************************)
Cmd(s) == [t |-> "str", s |-> s]
CmdUndef == [t |-> "undef", s |-> ""]
CmdObject == [t |-> "obj", s |-> ""]

\* variant: only the type is checked, the empty string passes
InvalidCommand_TypeOnly(c) == c.t # "str"

\* !cmd || typeof cmd !== 'string'
InvalidCommand(c) == (c.t = "undef" \/ (c.t = "str" /\ c.s = "")) \/ c.t # "str"

ValidCommands == {Cmd("true"), Cmd("false"), Cmd("flaky"), Cmd("killed"), Cmd("nullbyte")}
CommandValues == ValidCommands \cup {Cmd(""), CmdUndef, CmdObject}

(***************************************************************************)
(* The execution primitive.  spawnSync either throws or returns            *)
(* {status, stdout, stderr}; status is null when no exit status exists.    *)
(***************************************************************************)
StrNull == [isNull |-> TRUE, s |-> ""]
Str(s) == [isNull |-> FALSE, s |-> s]

Spawned(status, out, err) ==
    [threw |-> FALSE, status |-> status, stdout |-> out, stderr |-> err, message |-> ""]
SpawnThrew(msg) ==
    [threw |-> TRUE, status |-> Null, stdout |-> StrNull, stderr |-> StrNull, message |-> msg]
\* spawnSync returns {error, status: null}: the child could not be spawned or
\* its output exceeded maxBuffer
SpawnFailed(msg) ==
    [threw |-> FALSE, status |-> Null, stdout |-> StrNull, stderr |-> StrNull, message |-> msg]

SpawnOutcomes(c) ==
    CASE c.s = "true" -> {Spawned(Num(0), Str("ok"), Str(""))}
      [] c.s = "false" -> {Spawned(Num(1), Str(""), Str("boom"))}
      [] c.s = "flaky" -> {Spawned(Num(0), Str("ok"), Str("")),
                           Spawned(Num(2), Str(""), Str("boom"))}
      [] c.s = "killed" -> {SpawnFailed("ENOBUFS")}
      [] c.s = "nullbyte" -> {SpawnThrew("ERR_INVALID_ARG_VALUE")}
      [] OTHER -> {}

\* s || ''
OrEmpty(s) == IF s.isNull \/ s.s = "" THEN "" ELSE s.s

runTestOnce(prim) ==
    IF prim.threw
    THEN [success |-> FALSE,
          exitCode |-> Num(1),
          stdout |-> "",
          stderr |-> IF prim.message = "" THEN "Command execution failed" ELSE prim.message]
    ELSE [success |-> prim.status = Num(0),
          exitCode |-> Coalesce(prim.status, Num(1)),
          stdout |-> OrEmpty(prim.stdout),
          stderr |-> OrEmpty(prim.stderr)]

(***************************************************************************)
(* Reports.                                                                *)
(***************************************************************************)
Absent == "<absent>"

ErrorReport(msg) ==
    [success |-> FALSE, totalRuns |-> Num(0), passedRuns |-> 0, failedRuns |-> 0,
     flakyTests |-> <<>>, runs |-> <<>>, error |-> msg]

NoReport == ErrorReport("<no report>")

\* the message of the run count validation
RunsMessage == "Runs must be between 1 and 1000"


(***************************************************************************)
(* Results seen by the caller.  detectFlakiness gives a promise that is    *)
(* "resolved" with a report or "rejected"; detect, isFlaky and run give a  *)
(* Result that is "ok" or "err"; compileDetector may have "threw".         *)
(***************************************************************************)
NoResult == [state |-> "pending", value |-> NoReport, flaky |-> FALSE, error |-> Absent]
Ok(rep) == [state |-> "ok", value |-> rep, flaky |-> FALSE, error |-> Absent]
OkBool(b) == [state |-> "ok", value |-> NoReport, flaky |-> b, error |-> Absent]
Err(msg) == [state |-> "err", value |-> NoReport, flaky |-> FALSE, error |-> msg]
Threw(msg) == [state |-> "threw", value |-> NoReport, flaky |-> FALSE, error |-> msg]
Resolved(rep) == [state |-> "resolved", value |-> rep, flaky |-> FALSE, error |-> Absent]
Rejected(msg) == [state |-> "rejected", value |-> NoReport, flaky |-> FALSE, error |-> msg]

(***************************************************************************)
(* The progress sink.  Each call returns {ok: true}, {ok: false} or throws.*)
(***************************************************************************)
SinkResults == {"ok", "notok", "throw"}
SinkErrorMessage == "progress sink failed"
\* `flakiness-${Date.now()}`: one identifier per detection
ProgressId == "flakiness-now"
SinkCall(op) == [op |-> op, id |-> ProgressId]

(***************************************************************************)
(* Inputs.                                                                 *)
(***************************************************************************)
Apis == {"detectFlakiness", "detect", "isFlaky", "run"}

RunsValues ==
    {Undef, Null, NaN, Infinity, StrVal, Num(0 - 1), Frac(5, 2), Num(MaxRuns), Num(MaxRuns + 1)}
    \cup {Num(k) : k \in 0 .. MaxFlakyRuns}

ThresholdValues == {Undef, NaN, Num(0), Num(50), Num(100), Num(101)}

\* no callback, a callback, a callback that throws whenever it is called
CallbackValues == {"undefined", "function", "throwing"}

\* options.runs is the argument of run(count) for the compiled tier
OptionValues ==
    [test : CommandValues, runs : RunsValues, verbose : BOOLEAN,
     threshold : ThresholdValues, onProgress : CallbackValues]

\* number of loop iterations  for (i = 0; i < r; i++)  of a finite r
Iterations(r) == IF r.n <= 0 THEN 0 ELSE (r.n + r.d - 1) \div r.d

\* the command with free outcomes is explored for explicit small run counts
Explored(o) ==
    o.test = Cmd("flaky") =>
        /\ o.runs.t = "num"
        /\ Iterations(o.runs) <= MaxFlakyRuns

VARIABLES
    api,          \* the entry point that is called
    cli,          \* the command line process: parsed flags, output, exit code
    opts,         \* the options object it is called with
    detector,     \* the compiled detector: the options object its closure holds,
                  \* the last object getOptions() returned, earlier run() calls
    pc,           \* position of the call
    config,       \* the Config handed to detectFlakiness
    runs,         \* detectFlakiness: const runs
    i,            \* detectFlakiness: loop index
    results,      \* detectFlakiness: results
    passedRuns,   \* detectFlakiness: passedRuns
    failedRuns,   \* detectFlakiness: failedRuns
    flakyTests,   \* detectFlakiness: flakyTests
    dfState,      \* detectFlakiness: "running", "returned" or "rejected"
    report,       \* the report detectFlakiness returned
    result,       \* what the caller of the entry point gets
    spawnLog,     \* what each spawnSync invocation produced, in order
    sinkCalls,    \* calls made to the progress sink, in order
    sinkFailed,   \* some sink call returned not-ok or threw
    events        \* events delivered to config.onProgress, in order

vars == <<api, cli, opts, detector, pc, config, runs, i, results, passedRuns, failedRuns,
          flakyTests, dfState, report, result, spawnLog, sinkCalls,
          sinkFailed, events>>

\* no detector has been compiled, no run() call has returned
NoOptions == [test |-> CmdUndef, runs |-> Undef, verbose |-> FALSE,
              threshold |-> Undef, onProgress |-> "undefined"]
NoDetector == [options |-> NoOptions, copy |-> NoOptions, calls |-> 0, last |-> NoResult]

\* the process has not ended
NoExit == 0 - 1

\* parseArgs defaults (format 'json', stream false), nothing written yet
NoCli == [format |-> "json", stream |-> FALSE, showHelp |-> FALSE,
          stdout |-> <<>>, stderr |-> <<>>, exitCode |-> NoExit]

NoConfig == [testCommand |-> CmdUndef, runs |-> Undef, verbose |-> FALSE,
             threshold |-> Undef, onProgress |-> "undefined"]

\* the loop and the observations before anything has run
InitLoop ==
    /\ runs = Undef
    /\ i = 0
    /\ results = <<>>
    /\ passedRuns = 0
    /\ failedRuns = 0
    /\ flakyTests = <<>>
    /\ dfState = "running"
    /\ spawnLog = <<>>
    /\ sinkCalls = <<>>
    /\ sinkFailed = FALSE
    /\ events = <<>>

Init ==
    /\ api \in Apis
    /\ opts \in {o \in OptionValues : Explored(o)}
    /\ cli = NoCli
    /\ detector = NoDetector
    /\ pc = "entry"
    /\ config = NoConfig
    /\ runs = Undef
    /\ i = 0
    /\ results = <<>>
    /\ passedRuns = 0
    /\ failedRuns = 0
    /\ flakyTests = <<>>
    /\ dfState = "running"
    /\ report = NoReport
    /\ result = NoResult
    /\ spawnLog = <<>>
    /\ sinkCalls = <<>>
    /\ sinkFailed = FALSE
    /\ events = <<>>

loopVars == <<runs, i, results, passedRuns, failedRuns, flakyTests, dfState,
              report, spawnLog, sinkCalls, sinkFailed, events>>

(***************************************************************************)
(* Entry points.                                                           *)
(***************************************************************************)
\* a caller invokes detectFlakiness(config) directly
LegacyCall ==
    /\ api = "detectFlakiness"
    /\ pc = "entry"
    /\ config' = [testCommand |-> opts.test, runs |-> opts.runs, verbose |-> opts.verbose,
                  threshold |-> opts.threshold, onProgress |-> opts.onProgress]
    /\ pc' = "validate"
    /\ UNCHANGED <<api, cli, detector, opts, result>>
    /\ UNCHANGED loopVars

\* variant: the upper limit is not checked
RunsOutOfRange_NoUpperBound(r, lo) ==
    \/ ~IsNumberType(r)
    \/ ~IsFinite(r)
    \/ Lt(r, Num(lo))

\* variant: every tier uses the lower limit of detect()
RunsOutOfRange_SameMinimum(r, lo) ==
    \/ ~IsNumberType(r)
    \/ ~IsFinite(r)
    \/ Lt(r, Num(MinRuns))
    \/ Lt(Num(MaxRuns), r)

\* typeof r !== 'number' || !Number.isFinite(r) || r < lo || r > 1000
RunsOutOfRange(r, lo) ==
    \/ ~IsNumberType(r)
    \/ ~IsFinite(r)
    \/ Lt(r, Num(lo))
    \/ Lt(Num(MaxRuns), r)

\* detect(): validation and the Config it builds
DetectEntry ==
    /\ api = "detect"
    /\ pc = "entry"
    /\ LET r == Coalesce(opts.runs, Num(DefaultRuns)) IN
         IF InvalidCommand(opts.test)
         THEN /\ result' = Err("Test command must be a non-empty string")
              /\ pc' = "done"
              /\ UNCHANGED config
         ELSE IF RunsOutOfRange(r, MinRuns)
         THEN /\ result' = Err("Runs must be between 1 and 1000")
              /\ pc' = "done"
              /\ UNCHANGED config
         ELSE /\ config' = [testCommand |-> opts.test, runs |-> r, verbose |-> opts.verbose,
                            threshold |-> Undef, onProgress |-> opts.onProgress]
              /\ pc' = "validate"
              /\ UNCHANGED result
    /\ UNCHANGED <<api, cli, detector, opts>>
    /\ UNCHANGED loopVars

\* isFlaky(): validation and the Config it builds
IsFlakyEntry ==
    /\ api = "isFlaky"
    /\ pc = "entry"
    /\ LET r == Coalesce(opts.runs, Num(IsFlakyDefaultRuns)) IN
         IF InvalidCommand(opts.test)
         THEN /\ result' = Err("Test command must be a non-empty string")
              /\ pc' = "done"
              /\ UNCHANGED config
         ELSE IF RunsOutOfRange(r, IsFlakyMinRuns)
         THEN /\ result' = Err("Runs must be between 2 and 1000")
              /\ pc' = "done"
              /\ UNCHANGED config
         ELSE /\ config' = [testCommand |-> opts.test, runs |-> r, verbose |-> FALSE,
                            threshold |-> Undef, onProgress |-> opts.onProgress]
              /\ pc' = "validate"
              /\ UNCHANGED result
    /\ UNCHANGED <<api, cli, detector, opts>>
    /\ UNCHANGED loopVars

\* the options the closure of compileDetector captures; CompileOptions has no
\* run count, which is the argument of run()
Captured(o) == [o EXCEPT !.runs = Undef]

\* compileDetector(): throws on an invalid command, else returns the detector
CompileDetector ==
    /\ api = "run"
    /\ pc = "entry"
    /\ IF InvalidCommand(opts.test)
       THEN /\ result' = Threw("Test command must be a non-empty string")
            /\ pc' = "done"
            /\ UNCHANGED detector
       ELSE /\ pc' = "compiled"
            /\ detector' = [detector EXCEPT !.options = Captured(opts)]
            /\ UNCHANGED result
    /\ UNCHANGED <<api, cli, opts, config>>
    /\ UNCHANGED loopVars

\* detector.run(runs): validation and the Config it builds
RunEntry ==
    /\ api = "run"
    /\ pc = "compiled"
    /\ IF RunsOutOfRange(opts.runs, MinRuns)
       THEN /\ result' = Err("Runs must be between 1 and 1000")
            /\ pc' = "done"
            /\ UNCHANGED config
       ELSE /\ config' = [testCommand |-> detector.options.test, runs |-> opts.runs,
                          verbose |-> detector.options.verbose,
                          threshold |-> Undef,
                          onProgress |-> detector.options.onProgress]
            /\ pc' = "validate"
            /\ UNCHANGED result
    /\ UNCHANGED <<api, cli, detector, opts>>
    /\ UNCHANGED loopVars

(***************************************************************************)
(* detectFlakiness.                                                        *)
(***************************************************************************)
apiVars == <<api, cli, opts, detector, config, result>>

\* lines 69-93: defaults and validation of command and run count
Validate ==
    /\ pc = "validate"
    /\ LET r == DestructDefault(config.runs, Num(DefaultRuns)) IN
         IF InvalidCommand(config.testCommand)
         THEN /\ report' = ErrorReport("Test command must be a non-empty string")
              /\ dfState' = "returned"
              /\ pc' = "exit"
              /\ UNCHANGED runs
         ELSE IF RunsOutOfRange(r, MinRuns)
         THEN /\ report' = ErrorReport("Runs must be between 1 and 1000")
              /\ dfState' = "returned"
              /\ pc' = "exit"
              /\ UNCHANGED runs
         ELSE /\ runs' = r
              /\ pc' = "init"
              /\ UNCHANGED <<report, dfState>>
    /\ UNCHANGED apiVars
    /\ UNCHANGED <<i, results, passedRuns, failedRuns, flakyTests, spawnLog,
                   sinkCalls, sinkFailed, events>>

\* variant: the sink is used from 4 runs on
UsesProgress_FromFour(r) == ~Lt(r, Num(ProgressMinRuns - 1))

\* runs >= 5
UsesProgress(r) == ~Lt(r, Num(ProgressMinRuns))

\* variant: the loop variables are not set up again
ProgressInit_KeepsCounters ==
    /\ pc = "init"
    /\ IF UsesProgress(runs)
       THEN \E res \in SinkResults :
              /\ sinkCalls' = Append(sinkCalls, SinkCall("init"))
              /\ sinkFailed' = (sinkFailed \/ res # "ok")
              /\ IF res = "throw"
                 THEN /\ dfState' = "rejected"
                      /\ pc' = "exit"
                 ELSE /\ pc' = "loop"
                      /\ UNCHANGED dfState
       ELSE /\ pc' = "loop"
            /\ UNCHANGED <<sinkCalls, sinkFailed, dfState>>
    /\ UNCHANGED <<i, results, passedRuns, failedRuns>>
    /\ UNCHANGED apiVars
    /\ UNCHANGED <<runs, flakyTests, report, spawnLog, events>>

\* lines 95-112: progress.init for 5+ runs, then the loop variables
ProgressInit ==
    /\ pc = "init"
    /\ IF UsesProgress(runs)
       THEN \E res \in SinkResults :
              /\ sinkCalls' = Append(sinkCalls, SinkCall("init"))
              /\ sinkFailed' = (sinkFailed \/ res # "ok")
              /\ IF res = "throw"
                 THEN /\ dfState' = "rejected"
                      /\ pc' = "exit"
                 ELSE /\ pc' = "loop"
                      /\ UNCHANGED dfState
       ELSE /\ pc' = "loop"
            /\ UNCHANGED <<sinkCalls, sinkFailed, dfState>>
    /\ i' = 0
    /\ results' = <<>>
    /\ passedRuns' = 0
    /\ failedRuns' = 0
    /\ UNCHANGED apiVars
    /\ UNCHANGED <<runs, flakyTests, report, spawnLog, events>>

\* variant: i <= runs
LoopGuard_OffByOne(k, r) == ~Lt(r, Num(k))

\* variant: the loop stops after the first failed run
LoopGuard_StopAtFirstFailure(k, r) == Lt(Num(k), r) /\ failedRuns = 0

\* i < runs
LoopGuard(k, r) == Lt(Num(k), r)

\* variant: the next execution is started before the result of the current
\* one is recorded
RunOnce_Overlapped ==
    /\ pc = "loop"
    /\ LoopGuard(i, runs)
    /\ i < MaxIter
    /\ \E prim \in SpawnOutcomes(config.testCommand) :
         LET res == runTestOnce(prim) IN
           /\ spawnLog' = IF LoopGuard(i + 1, runs)
                          THEN spawnLog \o <<prim, prim>>
                          ELSE Append(spawnLog, prim)
           /\ results' = Append(results, res)
           /\ passedRuns' = IF res.success THEN passedRuns + 1 ELSE passedRuns
           /\ failedRuns' = IF res.success THEN failedRuns ELSE failedRuns + 1
    /\ i' = i + 1
    /\ UNCHANGED apiVars
    /\ UNCHANGED <<pc, dfState, sinkCalls, sinkFailed, runs, flakyTests, report, events>>

\* lines 115-134: one iteration of the loop
RunOnce ==
    /\ pc = "loop"
    /\ LoopGuard(i, runs)
    /\ i < MaxIter
    /\ \E prim \in SpawnOutcomes(config.testCommand) :
         LET res == runTestOnce(prim) IN
           /\ spawnLog' = Append(spawnLog, prim)
           /\ results' = Append(results, res)
           /\ passedRuns' = IF res.success THEN passedRuns + 1 ELSE passedRuns
           /\ failedRuns' = IF res.success THEN failedRuns ELSE failedRuns + 1
    /\ IF UsesProgress(runs)
       THEN \E res \in SinkResults :
              /\ sinkCalls' = Append(sinkCalls, SinkCall("increment"))
              /\ sinkFailed' = (sinkFailed \/ res # "ok")
              /\ IF res = "throw"
                 THEN /\ dfState' = "rejected"
                      /\ pc' = "exit"
                      /\ UNCHANGED i
                 ELSE /\ i' = i + 1
                      /\ UNCHANGED <<pc, dfState>>
       ELSE /\ i' = i + 1
            /\ UNCHANGED <<pc, dfState, sinkCalls, sinkFailed>>
    /\ UNCHANGED apiVars
    /\ UNCHANGED <<runs, flakyTests, report, events>>

\* variant: a passed run wipes the failures counted so far
LoopStep_PassResets(acc, prim) ==
    IF runTestOnce(prim).success
    THEN [passed |-> acc.passed + 1, failed |-> 0]
    ELSE [acc EXCEPT !.failed = @ + 1]

\* lines 121-127: the counting of one result
LoopStep(acc, prim) ==
    IF runTestOnce(prim).success
    THEN [acc EXCEPT !.passed = @ + 1]
    ELSE [acc EXCEPT !.failed = @ + 1]

RECURSIVE Tally(_)
\* lines 111-134: the counters after the loop has seen the outcomes log
Tally(log) ==
    IF log = <<>> THEN [passed |-> 0, failed |-> 0]
    ELSE LoopStep(Tally(SubSeq(log, 1, Len(log) - 1)), log[Len(log)])

\* variant: failedRuns / runs, not a percentage
FailureRate_NoPercent(failed, r) == Frac(failed * r.d, r.n)

\* (failedRuns / runs) * 100
FailureRate(failed, r) == Frac(failed * 100 * r.d, r.n)

\* variant: any failure is flagged, also when no run passed
Classified_AnyFailure(passed, failed, r, threshold) ==
    IF failed > 0
    THEN << [testName |-> "Test Suite", passed |-> passed, failed |-> failed,
             totalRuns |-> r, failureRate |-> FailureRate(failed, r)] >>
    ELSE <<>>

\* lines 136-148: the classification
Classified(passed, failed, r, threshold) ==
    IF passed > 0 /\ failed > 0
    THEN << [testName |-> "Test Suite", passed |-> passed, failed |-> failed,
             totalRuns |-> r, failureRate |-> FailureRate(failed, r)] >>
    ELSE <<>>

\* lines 111-148: counters and classification of a detection that sees log
DetectionOf(log, r, threshold) ==
    LET t == Tally(log) IN
      [passedRuns |-> t.passed, failedRuns |-> t.failed,
       flakyTests |-> Classified(t.passed, t.failed, r, threshold),
       runs |-> [k \in 1 .. Len(log) |-> runTestOnce(log[k])]]

Classify ==
    /\ pc = "loop"
    /\ ~LoopGuard(i, runs)
    /\ flakyTests' = Classified(passedRuns, failedRuns, runs, config.threshold)
    /\ pc' = "finish"
    /\ UNCHANGED apiVars
    /\ UNCHANGED <<runs, i, results, passedRuns, failedRuns, dfState, report,
                   spawnLog, sinkCalls, sinkFailed, events>>

\* lines 150-163: progress.finish for 5+ runs
ProgressFinish ==
    /\ pc = "finish"
    /\ IF UsesProgress(runs)
       THEN \E res \in SinkResults :
              /\ sinkCalls' = Append(sinkCalls, SinkCall("finish"))
              /\ sinkFailed' = (sinkFailed \/ res # "ok")
              /\ IF res = "throw"
                 THEN /\ dfState' = "rejected"
                      /\ pc' = "exit"
                 ELSE /\ pc' = "clear"
                      /\ UNCHANGED dfState
       ELSE /\ pc' = "clear"
            /\ UNCHANGED <<sinkCalls, sinkFailed, dfState>>
    /\ UNCHANGED apiVars
    /\ UNCHANGED <<runs, i, results, passedRuns, failedRuns, flakyTests, report,
                   spawnLog, events>>

\* variant: a verbose detection leaves the per-run results out of the report
SuccessReport_VerboseOmitsRuns(r, passed, failed, flaky, res) ==
    [success |-> TRUE, totalRuns |-> r, passedRuns |-> passed, failedRuns |-> failed,
     flakyTests |-> flaky, runs |-> IF config.verbose THEN <<>> ELSE res,
     error |-> Absent]

\* variant: success tells whether the run set was free of flakiness
SuccessReport_FailsWhenFlaky(r, passed, failed, flaky, res) ==
    [success |-> flaky = <<>>, totalRuns |-> r, passedRuns |-> passed,
     failedRuns |-> failed, flakyTests |-> flaky, runs |-> res, error |-> Absent]

\* lines 170-177: the report of a completed detection
SuccessReport(r, passed, failed, flaky, res) ==
    [success |-> TRUE, totalRuns |-> r, passedRuns |-> passed, failedRuns |-> failed,
     flakyTests |-> flaky, runs |-> res, error |-> Absent]

\* lines 165-177: progress.clear for 5+ runs, then return the report
ProgressClear ==
    /\ pc = "clear"
    /\ IF UsesProgress(runs)
       THEN \E res \in SinkResults :
              /\ sinkCalls' = Append(sinkCalls, SinkCall("clear"))
              /\ sinkFailed' = (sinkFailed \/ res # "ok")
              /\ IF res = "throw"
                 THEN /\ dfState' = "rejected"
                      /\ UNCHANGED report
                 ELSE /\ dfState' = "returned"
                      /\ report' = SuccessReport(runs, passedRuns, failedRuns,
                                                 flakyTests, results)
       ELSE /\ dfState' = "returned"
            /\ report' = SuccessReport(runs, passedRuns, failedRuns, flakyTests, results)
            /\ UNCHANGED <<sinkCalls, sinkFailed>>
    /\ pc' = "exit"
    /\ UNCHANGED apiVars
    /\ UNCHANGED <<runs, i, results, passedRuns, failedRuns, flakyTests,
                   spawnLog, events>>

(***************************************************************************)
(* Back in the entry points.                                               *)
(***************************************************************************)
\* the promise of detectFlakiness settles for its direct caller
LegacySettle ==
    /\ api = "detectFlakiness"
    /\ pc = "exit"
    /\ result' = IF dfState = "rejected" THEN Rejected(SinkErrorMessage)
                 ELSE Resolved(report)
    /\ pc' = "done"
    /\ UNCHANGED <<api, cli, detector, opts, config>>
    /\ UNCHANGED loopVars

\* report.error ?? 'Detection failed'
ErrorOf(rep) == IF rep.error = Absent THEN "Detection failed" ELSE rep.error

\* variant: no try/catch around the detection
WrapReport_NoCatch(state, rep) ==
    IF state = "rejected" THEN Rejected(SinkErrorMessage)
    ELSE IF ~rep.success THEN Err(ErrorOf(rep))
    ELSE Ok(rep)

\* detect() and run(): lines 252-270 and 409-427
WrapReport(state, rep) ==
    IF state = "rejected" THEN Err(SinkErrorMessage)
    ELSE IF ~rep.success THEN Err(ErrorOf(rep))
    ELSE Ok(rep)

DetectExit ==
    /\ api = "detect"
    /\ pc = "exit"
    /\ result' = WrapReport(dfState, report)
    /\ pc' = "done"
    /\ UNCHANGED <<api, cli, detector, opts, config>>
    /\ UNCHANGED loopVars

RunExit ==
    /\ api = "run"
    /\ pc = "exit"
    /\ result' = WrapReport(dfState, report)
    /\ pc' = "done"
    /\ UNCHANGED <<api, cli, detector, opts, config>>
    /\ UNCHANGED loopVars

\* variant: flakyTests.length >= 0
WrapFlaky_NonStrict(state, rep) ==
    IF state = "rejected" THEN Err(SinkErrorMessage)
    ELSE IF ~rep.success THEN Err(ErrorOf(rep))
    ELSE OkBool(Len(rep.flakyTests) >= 0)

\* isFlaky(): lines 330-351
WrapFlaky(state, rep) ==
    IF state = "rejected" THEN Err(SinkErrorMessage)
    ELSE IF ~rep.success THEN Err(ErrorOf(rep))
    ELSE OkBool(Len(rep.flakyTests) > 0)

IsFlakyExit ==
    /\ api = "isFlaky"
    /\ pc = "exit"
    /\ result' = WrapFlaky(dfState, report)
    /\ pc' = "done"
    /\ UNCHANGED <<api, cli, detector, opts, config>>
    /\ UNCHANGED loopVars

Next ==
    \/ LegacyCall
    \/ DetectEntry
    \/ IsFlakyEntry
    \/ CompileDetector
    \/ RunEntry
    \/ Validate
    \/ ProgressInit
    \/ RunOnce
    \/ Classify
    \/ ProgressFinish
    \/ ProgressClear
    \/ LegacySettle
    \/ DetectExit
    \/ RunExit
    \/ IsFlakyExit

Spec == Init /\ [][Next]_vars

\* the call is not suspended for ever: the runtime keeps executing it
SpecFair == Init /\ [][Next]_vars /\ WF_vars(Next)

(***************************************************************************)
(* Reuse of one compiled detector: run() is called again after it returns. *)
(***************************************************************************)
\* bound on the number of further run() calls
MaxCalls == 2

\* the counts run() is called with
RepeatCounts == {Num(0), Num(2), Num(ProgressMinRuns)}

ReuseOptions ==
    {o \in OptionValues :
        /\ o.test \in {Cmd("true"), Cmd("flaky"), Cmd("")}
        /\ o.runs \in RepeatCounts
        /\ ~o.verbose
        /\ o.threshold \in {Undef, Num(50)}
        /\ o.onProgress \in {"undefined", "function"}}

getCommand == detector.options.test

\* { ...options }
getOptions == detector.options

\* the caller calls run(c) on the same detector.  The call starts a new
\* detection (new promise, new report, sink and primitive observed afresh);
\* the loop variables keep what the previous call left in them.
RunAgain ==
    /\ api = "run"
    /\ pc = "done"
    /\ result.state # "threw"
    /\ detector.calls < MaxCalls
    /\ \E c \in RepeatCounts : opts' = [opts EXCEPT !.runs = c]
    /\ detector' = [detector EXCEPT !.calls = @ + 1, !.last = result]
    /\ pc' = "compiled"
    /\ result' = NoResult
    /\ dfState' = "running"
    /\ report' = NoReport
    /\ spawnLog' = <<>>
    /\ sinkCalls' = <<>>
    /\ sinkFailed' = FALSE
    /\ UNCHANGED <<api, cli, config, runs, i, results, passedRuns, failedRuns, flakyTests,
                   events>>

InitReuse ==
    /\ Init
    /\ api = "run"
    /\ opts \in ReuseOptions

NextReuse ==
    \/ CompileDetector
    \/ RunEntry
    \/ Validate
    \/ ProgressInit
    \/ RunOnce
    \/ Classify
    \/ ProgressFinish
    \/ ProgressClear
    \/ RunExit
    \/ RunAgain

SpecReuse == InitReuse /\ [][NextReuse]_vars

(***************************************************************************)
(* The caller keeps the object it passed to compileDetector.  The closure  *)
(* holds that same object (detector.options), so an assignment by the      *)
(* caller is an assignment to it; opts keeps the values given at           *)
(* construction.  getOptions() returns a new object.                       *)
(***************************************************************************)
MutatedCommands == {Cmd("false"), Cmd("")}

\* options.test = c  or  options.verbose = !options.verbose  by the caller
MutateOptions ==
    /\ api = "run"
    /\ pc = "compiled"
    /\ detector.options = Captured(opts)
    /\ \/ \E c \in MutatedCommands : detector' = [detector EXCEPT !.options.test = c]
       \/ detector' = [detector EXCEPT !.options.verbose = ~@]
    /\ UNCHANGED <<api, cli, opts, pc, config, result>>
    /\ UNCHANGED loopVars

\* const o = detector.getOptions(); o.test = c
MutateCopy ==
    /\ api = "run"
    /\ pc = "compiled"
    /\ detector.copy = NoOptions
    /\ \E c \in MutatedCommands : detector' = [detector EXCEPT !.copy = [getOptions EXCEPT !.test = c]]
    /\ UNCHANGED <<api, cli, opts, pc, config, result>>
    /\ UNCHANGED loopVars

InitMutate ==
    /\ InitReuse
    /\ opts.test # Cmd("flaky")

NextMutate ==
    \/ CompileDetector
    \/ MutateOptions
    \/ MutateCopy
    \/ RunEntry
    \/ Validate
    \/ ProgressInit
    \/ RunOnce
    \/ Classify
    \/ ProgressFinish
    \/ ProgressClear
    \/ RunExit

SpecMutate == InitMutate /\ [][NextMutate]_vars

(***************************************************************************)
(* Formatters (src/src/formatters.ts).  A string is a sequence of tokens;  *)
(* the empty string is the empty sequence and "\n" is a token of its own.  *)
(***************************************************************************)
Formats == {"json", "text", "minimal"}

\* the string of a name: '' is the empty string
Text(name) == IF name = "" THEN <<>> ELSE <<name>>

RECURSIVE Join(_, _)
\* lines.join(sep)
Join(lines, sep) ==
    IF lines = <<>> THEN <<>>
    ELSE IF Len(lines) = 1 THEN lines[1]
    ELSE lines[1] \o <<sep>> \o Join(Tail(lines), sep)

\* `${n}` of a number whose denominator divides 10
NumText(v) ==
    IF v.n % v.d = 0 THEN <<ToString(v.n \div v.d)>>
    ELSE <<ToString(v.n \div v.d), ".", ToString(((v.n % v.d) * 10) \div v.d)>>

\* n.toFixed(1) of a non-negative number
Fixed1(v) ==
    LET tenths == (v.n * 20 + v.d) \div (2 * v.d) IN
      <<ToString(tenths \div 10), ".", ToString(tenths % 10)>>

\* JSON.stringify(report, null, 2)
formatJSON(rep) == <<ToString(rep)>>

\* the lines of one flaky test in formatText
FlakyTestLines(test) ==
    << <<"  * ">> \o Text(test.testName),
       <<"    Passed: ", ToString(test.passed), "/">> \o NumText(test.totalRuns)
           \o <<" (">> \o Fixed1(Frac(100 * test.failureRate.d - test.failureRate.n,
                                      test.failureRate.d)) \o <<"%)">>,
       <<"    Failed: ", ToString(test.failed), "/">> \o NumText(test.totalRuns)
           \o <<" (">> \o Fixed1(test.failureRate) \o <<"%)">>,
       <<>> >>

RECURSIVE AllFlakyTestLines(_)
AllFlakyTestLines(tests) ==
    IF tests = <<>> THEN <<>>
    ELSE FlakyTestLines(tests[1]) \o AllFlakyTestLines(Tail(tests))

\* formatText; the emoji that open its headings are written as ASCII tags
formatText(rep) ==
    LET header == << <<"[report] Test Flakiness Detection Report">>, <<"=====">>, <<>> >>
        summary == << <<"[summary] Summary">>,
                      <<"  Total Runs: ">> \o NumText(rep.totalRuns),
                      <<"  Passed: ", ToString(rep.passedRuns)>>,
                      <<"  Failed: ", ToString(rep.failedRuns)>>,
                      <<>> >>
        verdict ==
            IF rep.flakyTests = <<>>
            THEN IF Num(rep.passedRuns) = rep.totalRuns
                 THEN << <<"[ok] No flakiness detected (all tests passed)">> >>
                 ELSE IF Num(rep.failedRuns) = rep.totalRuns
                 THEN << <<"[ok] No flakiness detected (all tests failed consistently)">> >>
                 ELSE << <<"[ok] No flakiness detected">> >>
            ELSE << <<"[warning] Flaky Tests Detected">>, <<>>, <<"Flaky Tests:">> >>
                 \o AllFlakyTestLines(rep.flakyTests)
    IN IF ~rep.success /\ rep.error \notin {Absent, ""}
       THEN Join(header \o << <<"[error] Error">>, <<"  ", rep.error>> >>, "\n")
       ELSE Join(header \o summary \o verdict, "\n")

\* report.flakyTests.map((test) => test.testName)
RECURSIVE TestNames(_)
TestNames(tests) ==
    IF tests = <<>> THEN <<>> ELSE <<Text(tests[1].testName)>> \o TestNames(Tail(tests))

\* variant: the names are printed whatever report.success says
formatMinimal_IgnoresSuccess(rep) ==
    IF Len(rep.flakyTests) = 0 THEN <<>>
    ELSE Join(TestNames(rep.flakyTests), "\n")

\* formatMinimal
formatMinimal(rep) ==
    IF ~rep.success \/ Len(rep.flakyTests) = 0 THEN <<>>
    ELSE Join(TestNames(rep.flakyTests), "\n")

\* formatReport
formatReport(rep, format) ==
    CASE format = "json" -> formatJSON(rep)
      [] format = "text" -> formatText(rep)
      [] format = "minimal" -> formatMinimal(rep)

(***************************************************************************)
(* The command line program: main() of the CLI, lines 632-675.  parseArgs  *)
(* has produced the Config (opts) and the flags (cli).                     *)
(***************************************************************************)
\* parseInt gives an integer, absent or unparsable keeps the default 10
CliRunsValues == {Num(0 - 1), Num(0), Num(1), Num(2), Num(3), Num(ProgressMinRuns),
                  Num(DefaultRuns), Num(MaxRuns + 1)}

\* testCommand is '' unless --test has a value; parseFloat gives a number or
\* the threshold stays undefined
CliOptionValues ==
    {o \in OptionValues :
        /\ o.test \in {Cmd(""), Cmd("true"), Cmd("false"), Cmd("flaky")}
        /\ o.runs \in CliRunsValues
        /\ o.threshold \in {Undef, Num(0), Num(50), Num(101)}
        /\ o.onProgress = "undefined"}

CliFlagValues ==
    {[NoCli EXCEPT !.format = f, !.stream = s, !.showHelp = h] :
        f \in Formats, s \in BOOLEAN, h \in BOOLEAN}

HelpText == <<"Test Flakiness Detector", "\n", "Usage: ...">>

\* exit codes the runtime gives an unhandled rejection of main()
UnhandledRejectionCodes == {0, 1}

\* console.log(JSON.stringify(event)) of the --stream callback
EventLine(e) == <<ToString(e)>>

\* lines 632-657: help, missing command, the --stream callback
CliMain ==
    /\ api = "cli"
    /\ pc = "entry"
    /\ IF cli.showHelp
       THEN /\ cli' = [cli EXCEPT !.stdout = Append(@, HelpText), !.exitCode = 0]
            /\ pc' = "done"
            /\ UNCHANGED config
       ELSE IF opts.test.s = ""
       THEN /\ cli' = [cli EXCEPT
                         !.stderr = @ \o << <<"Error: Test command is required">>,
                                            <<"Use --test <command> to specify the test command">>,
                                            <<"Use --help for more information">> >>,
                         !.exitCode = 2]
            /\ pc' = "done"
            /\ UNCHANGED config
       ELSE /\ config' = [testCommand |-> opts.test, runs |-> opts.runs,
                          verbose |-> opts.verbose, threshold |-> opts.threshold,
                          onProgress |-> IF cli.stream THEN "function" ELSE "undefined"]
            /\ pc' = "validate"
            /\ UNCHANGED cli
    /\ UNCHANGED <<api, opts, detector, result>>
    /\ UNCHANGED loopVars

\* lines 659-675: print the report unless streaming, choose the exit code
CliExit ==
    /\ api = "cli"
    /\ pc = "exit"
    /\ IF dfState = "rejected"
       THEN \E code \in UnhandledRejectionCodes :
              cli' = [cli EXCEPT !.stderr = Append(@, <<SinkErrorMessage>>),
                                 !.exitCode = code]
       ELSE IF report.success
       THEN cli' = [cli EXCEPT
                      !.stdout = IF ~cli.stream
                                 THEN Append(@, formatReport(report, cli.format))
                                 ELSE @,
                      !.exitCode = IF Len(report.flakyTests) > 0 THEN 1 ELSE 0]
       ELSE cli' = [cli EXCEPT !.stderr = Append(@, <<"Error: ", report.error>>),
                               !.exitCode = 2]
    /\ pc' = "done"
    /\ UNCHANGED <<api, opts, detector, config, result>>
    /\ UNCHANGED loopVars

InitCLI ==
    /\ api = "cli"
    /\ opts \in {o \in CliOptionValues : Explored(o)}
    /\ cli \in CliFlagValues
    /\ detector = NoDetector
    /\ pc = "entry"
    /\ config = NoConfig
    /\ report = NoReport
    /\ result = NoResult
    /\ InitLoop

NextCLI ==
    \/ CliMain
    \/ Validate
    \/ ProgressInit
    \/ RunOnce
    \/ Classify
    \/ ProgressFinish
    \/ ProgressClear
    \/ CliExit

SpecCLI == InitCLI /\ [][NextCLI]_vars

(***************************************************************************)
(* The formatters applied to a report a caller hands them.                 *)
(***************************************************************************)
\* bound on the length of report.flakyTests
MaxFlakyTests == 3

TestNameValues == {"Suite A", "Suite B", "Test Suite"}

FlakeStat(name) ==
    [testName |-> name, passed |-> 1, failed |-> 1, totalRuns |-> Num(2),
     failureRate |-> Num(50)]

RECURSIVE SeqsUpTo(_, _)
\* the sequences over S of length at most n
SeqsUpTo(S, n) ==
    IF n = 0 THEN {<<>>}
    ELSE LET shorter == SeqsUpTo(S, n - 1) IN
           shorter \cup {Append(q, x) : q \in shorter, x \in S}

\* a DetectionReport as a caller may build it
ReportValues ==
    {[success |-> ok, totalRuns |-> Num(2), passedRuns |-> 1, failedRuns |-> 1,
      flakyTests |-> tests, runs |-> <<>>,
      error |-> IF ok THEN Absent ELSE RunsMessage] :
        ok \in BOOLEAN,
        tests \in SeqsUpTo({FlakeStat(nm) : nm \in TestNameValues}, MaxFlakyTests)}

\* console.log(formatReport(report, format)) of a caller
FormatCall ==
    /\ api = "format"
    /\ pc = "entry"
    /\ cli' = [cli EXCEPT !.stdout = Append(@, formatReport(report, cli.format))]
    /\ pc' = "done"
    /\ UNCHANGED <<api, opts, detector, config, result>>
    /\ UNCHANGED loopVars

InitFormat ==
    /\ api = "format"
    /\ opts = NoOptions
    /\ cli \in {[NoCli EXCEPT !.format = f] : f \in Formats}
    /\ detector = NoDetector
    /\ pc = "entry"
    /\ config = NoConfig
    /\ report \in ReportValues
    /\ result = NoResult
    /\ InitLoop

NextFormat == FormatCall

SpecFormat == InitFormat /\ [][NextFormat]_vars

TypeOK ==
    /\ pc \in {"entry", "compiled", "validate", "init", "loop", "finish", "clear",
               "exit", "done"}
    /\ i \in 0 .. MaxIter
    /\ Len(results) = Len(spawnLog)
    /\ dfState \in {"running", "returned", "rejected"}

(***************************************************************************)
(* Vocabulary of the properties.                                           *)
(***************************************************************************)
\* an integer-valued finite number
IsInteger(v) == v.t = "num" /\ v.n % v.d = 0

\* detectFlakiness has returned a report of a completed detection
Completed == dfState = "returned" /\ report.success

\* the run count the caller asked for: the given one, else the tier's default
Requested ==
    CASE api = "isFlaky" -> Coalesce(opts.runs, Num(IsFlakyDefaultRuns))
      [] api = "run" -> opts.runs
      [] OTHER -> Coalesce(opts.runs, Num(DefaultRuns))

ExitedZero(prim) == ~prim.threw /\ prim.status.t = "num" /\ prim.status.n = 0
PassCount(log) == Cardinality({k \in 1 .. Len(log) : ExitedZero(log[k])})
FailCount(log) == Cardinality({k \in 1 .. Len(log) : ~ExitedZero(log[k])})

\* a threshold the validator of the specification accepts; absent means 0
ValidThreshold(t) == t.t = "undef" \/ (t.t = "num" /\ t.n >= 0 /\ t.n <= 100 * t.d)
EffectiveThreshold(t) == IF t.t = "undef" THEN Num(0) ELSE t

HasCallback == config.onProgress # "undefined"
EventsOfType(ty) == {j \in 1 .. Len(events) : events[j].type = ty}


(***************************************************************************)
(* C1: in a completed detection with passes and failures and a valid       *)
(* threshold t, flakyTests holds the FlakeStat iff (failed/total)*100 > t, *)
(* strictly.                                                               *)
(***************************************************************************)
C1_ThresholdStrict ==
    (/\ Completed
     /\ report.passedRuns > 0
     /\ report.failedRuns > 0
     /\ ValidThreshold(config.threshold))
    => ((Len(report.flakyTests) = 1)
          <=> Lt(EffectiveThreshold(config.threshold),
                 Frac(report.failedRuns * 100 * runs.d, runs.n)))

(***************************************************************************)
(* C2: a successful report of an integer run count has totalRuns equal to  *)
(* the requested count, passedRuns + failedRuns = totalRuns, and one entry *)
(* of runs per execution, in execution order.                              *)
(***************************************************************************)
C2_CountsAddUp ==
    (Completed /\ IsInteger(Requested))
    => /\ report.totalRuns = Requested
       /\ report.passedRuns + report.failedRuns = report.totalRuns.n
       /\ Len(report.runs) = report.totalRuns.n
       /\ Len(spawnLog) = report.totalRuns.n
       /\ \A k \in 1 .. Len(report.runs) :
            report.runs[k].success = ExitedZero(spawnLog[k])

C2_Witness ==
    /\ Completed
    /\ report.totalRuns = Num(3)
    /\ report.passedRuns = 1
    /\ report.failedRuns = 2
    /\ ~report.runs[1].success
    /\ report.runs[2].success

(***************************************************************************)
(* C3: when all runs exit 0, or all exit non-zero, flakyTests is empty     *)
(* whatever the threshold, and passedRuns (resp. failedRuns) is totalRuns. *)
(***************************************************************************)
C3_ConsistentIsNotFlaky ==
    Completed
    => /\ (\A k \in 1 .. Len(spawnLog) : ExitedZero(spawnLog[k]))
          => /\ report.flakyTests = <<>>
             /\ report.failedRuns = 0
             /\ IsInteger(runs) => report.passedRuns = report.totalRuns.n
       /\ (\A k \in 1 .. Len(spawnLog) : ~ExitedZero(spawnLog[k]))
          => /\ report.flakyTests = <<>>
             /\ report.passedRuns = 0
             /\ IsInteger(runs) => report.failedRuns = report.totalRuns.n

C3_Witness ==
    /\ Completed
    /\ Len(spawnLog) = 3
    /\ \A k \in 1 .. Len(spawnLog) : ~ExitedZero(spawnLog[k])
    /\ config.threshold = Num(0)
    /\ report.failedRuns = 3

C5_EventSequence ==
    (Completed /\ HasCallback)
    => LET n == Len(spawnLog) IN
         /\ Len(events) = 2 * n + 2
         /\ events[1].type = "start"
         /\ \A k \in 1 .. n : /\ events[2 * k].type = "run-start"
                              /\ events[2 * k + 1].type = "run-complete"
         /\ events[2 * n + 2].type = "complete"

(***************************************************************************)
(* C6: once the i-th execution has begun, a run-start with runNumber i and *)
(* the configured totalRuns has been emitted; once it is counted, a        *)
(* run-complete with runNumber i carries its success flag and exit code.   *)
(***************************************************************************)
C6_EventContents ==
    HasCallback
    => /\ \A k \in 1 .. Len(spawnLog) :
            \E j \in EventsOfType("run-start") :
               events[j].runNumber = k /\ events[j].totalRuns = runs
       /\ \A k \in 1 .. Len(results) :
            \E j \in EventsOfType("run-complete") :
               /\ events[j].runNumber = k
               /\ events[j].totalRuns = runs
               /\ events[j].success = results[k].success
               /\ events[j].exitCode = results[k].exitCode

(***************************************************************************)
(* C7: the report of the single complete event equals the report the call  *)
(* returns.                                                                *)
(***************************************************************************)
C7_CompleteCarriesReport ==
    (/\ pc = "done"
     /\ HasCallback
     /\ result.state \in {"ok", "resolved"}
     /\ api # "isFlaky"
     /\ result.value.success)
    => /\ Cardinality(EventsOfType("complete")) = 1
       /\ \A j \in EventsOfType("complete") : events[j].report = result.value

(***************************************************************************)
(* C8: with a callback that throws on every invocation the detection still *)
(* executes all N runs, still delivers every event and returns the         *)
(* successful report.                                                      *)
(***************************************************************************)
C8_ThrowingCallback ==
    (/\ pc = "done"
     /\ config.onProgress = "throwing"
     /\ runs.t = "num"
     /\ ~sinkFailed)
    => /\ Len(spawnLog) = Iterations(runs)
       /\ result.state \in {"ok", "resolved"}
       /\ report.success
       /\ report.passedRuns = PassCount(spawnLog)
       /\ report.failedRuns = FailCount(spawnLog)
       /\ Len(events) = 2 * Len(spawnLog) + 2

(***************************************************************************)
(* C9: for runs >= 5 a progress sink call that throws or returns not-ok    *)
(* does not affect the detection: all N runs are executed and the same     *)
(* report is returned.                                                     *)
(***************************************************************************)
C9_SinkFailureHarmless ==
    (/\ pc = "done"
     /\ runs.t = "num"
     /\ UsesProgress(runs)
     /\ sinkFailed)
    => /\ Len(spawnLog) = Iterations(runs)
       /\ result.state \in {"ok", "resolved"}
       /\ report.success
       /\ report.totalRuns = runs
       /\ report.passedRuns = PassCount(spawnLog)
       /\ report.failedRuns = FailCount(spawnLog)
       /\ report.runs = results

(***************************************************************************)
(* C10: a given run count that is not a finite number in [1,1000] makes    *)
(* detectFlakiness, detect and run return the configuration error "Runs    *)
(* must be between 1 and 1000" without any execution or progress-sink      *)
(* call; 1 and 1000 are accepted.                                          *)
(***************************************************************************)
BadRunCount(v) ==
    /\ v.t \notin {"undef", "null"}
    /\ ~(v.t = "num" /\ v.d <= v.n /\ v.n <= 1000 * v.d)

RunsErrorReturned ==
    IF api = "detectFlakiness"
    THEN /\ result.state = "resolved"
         /\ ~result.value.success
         /\ result.value.error = RunsMessage
    ELSE /\ result.state = "err"
         /\ result.error = RunsMessage

C10_RunsValidation ==
    (api \in {"detectFlakiness", "detect", "run"} /\ ~InvalidCommand(opts.test))
    => /\ BadRunCount(opts.runs)
          => /\ spawnLog = <<>>
             /\ sinkCalls = <<>>
             /\ pc \notin {"init", "loop", "finish", "clear"}
             /\ pc = "done" => RunsErrorReturned
       /\ opts.runs \in {Num(1), Num(1000)}
          => /\ report.error # RunsMessage
             /\ result.error # RunsMessage
             /\ pc \notin {"entry", "compiled", "validate"} => runs = opts.runs

C10_Witness ==
    /\ api = "run"
    /\ opts.runs = Num(1001)
    /\ pc = "done"
    /\ RunsErrorReturned

(***************************************************************************)
(* C11: detectFlakiness returns success = false with the error "Threshold  *)
(* must be between 0 and 100", without executing the command, iff a        *)
(* threshold is given that is not a finite number in [0,100].              *)
(***************************************************************************)
ThresholdMessage == "Threshold must be between 0 and 100"

\* the command and the run count pass the validation of detectFlakiness
ValidCommandAndRuns(c) ==
    /\ c.testCommand.t = "str"
    /\ c.testCommand.s # ""
    /\ \/ c.runs.t = "undef"
       \/ (c.runs.t = "num" /\ c.runs.d <= c.runs.n /\ c.runs.n <= 1000 * c.runs.d)

C11_ThresholdValidation ==
    (/\ api = "detectFlakiness"
     /\ pc \notin {"entry"}
     /\ ValidCommandAndRuns(config))
    => /\ ~ValidThreshold(config.threshold)
          => /\ spawnLog = <<>>
             /\ pc = "done" => /\ result.state = "resolved"
                               /\ ~result.value.success
                               /\ result.value.error = ThresholdMessage
       /\ ValidThreshold(config.threshold)
          => /\ report.error # ThresholdMessage
             /\ result.error # ThresholdMessage

IsFlakyRunsMessage == "Runs must be between 2 and 1000"

\* a given number in [2,1000]
InBothRanges(v) == v.t = "num" /\ 2 * v.d <= v.n /\ v.n <= 1000 * v.d

C14_IsFlakyMatchesReport ==
    (api = "isFlaky" /\ pc = "done" /\ result.state = "ok")
    => /\ Completed
       /\ result.flaky = (Len(report.flakyTests) > 0)
       /\ result.flaky = (PassCount(spawnLog) > 0 /\ FailCount(spawnLog) > 0)
       /\ result.flaky
            = (Len(Classified(PassCount(spawnLog), FailCount(spawnLog),
                              Requested, opts.threshold)) > 0)

C14_Witness ==
    /\ api = "isFlaky"
    /\ pc = "done"
    /\ result.state = "ok"
    /\ result.flaky
    /\ Len(spawnLog) = 3

(***************************************************************************)
(* C15: the threshold given to detect(), isFlaky() or compileDetector() is *)
(* the one the loop classifies with: a run set with passes and failures    *)
(* whose failure rate is at or below it gives flakyTests = [] (detect,     *)
(* run) and false (isFlaky).                                               *)
(***************************************************************************)
C15_ThresholdReachesLoop ==
    (/\ api \in {"detect", "isFlaky", "run"}
     /\ pc = "done"
     /\ result.state = "ok"
     /\ opts.threshold.t = "num"
     /\ ValidThreshold(opts.threshold)
     /\ PassCount(spawnLog) > 0
     /\ FailCount(spawnLog) > 0
     /\ ~Lt(opts.threshold, Frac(FailCount(spawnLog) * 100 * Requested.d, Requested.n)))
    => IF api = "isFlaky" THEN ~result.flaky ELSE result.value.flakyTests = <<>>

(***************************************************************************)
(* C16: with runs omitted detect() executes the command exactly 10 times   *)
(* (totalRuns = 10) and isFlaky() exactly 5 times; a given runs value is   *)
(* never replaced by the default.                                          *)
(***************************************************************************)
C16_DefaultRuns ==
    (opts.test.t = "str" /\ opts.test.s # "")
    => /\ (api = "detect" /\ opts.runs = Undef)
          => /\ Len(spawnLog) <= 10
             /\ pc \notin {"entry", "validate"} => runs = Num(10)
             /\ (pc = "done" /\ ~sinkFailed) => /\ result.state = "ok"
                                                /\ Len(spawnLog) = 10
                                                /\ result.value.totalRuns = Num(10)
       /\ (api = "isFlaky" /\ opts.runs = Undef)
          => /\ Len(spawnLog) <= 5
             /\ pc \notin {"entry", "validate"} => runs = Num(5)
             /\ (pc = "done" /\ ~sinkFailed) => /\ result.state = "ok"
                                                /\ Len(spawnLog) = 5
                                                /\ report.totalRuns = Num(5)
       /\ (api \in {"detect", "isFlaky"} /\ opts.runs.t \notin {"undef", "null"})
          => /\ pc \notin {"entry", "validate", "done"} => runs = opts.runs
             /\ result.state = "ok" => /\ runs = opts.runs
                                       /\ report.totalRuns = opts.runs

C16_Witness ==
    /\ api = "detect"
    /\ opts.runs = Undef
    /\ pc = "done"
    /\ result.state = "ok"
    /\ Len(spawnLog) = 10
    /\ result.value.totalRuns = Num(10)

(***************************************************************************)
(* C17: compileDetector throws at construction when the command is empty   *)
(* or not a string, and nothing is executed; run(count) with an invalid    *)
(* count on a constructed detector never throws and returns the failure    *)
(* "Runs must be between 1 and 1000".                                      *)
(***************************************************************************)
C17_CompileThrowsRunReturns ==
    api = "run"
    => /\ (opts.test.t # "str" \/ opts.test.s = "")
          => /\ spawnLog = <<>>
             /\ sinkCalls = <<>>
             /\ pc \in {"entry", "done"}
             /\ pc = "done" => /\ result.state = "threw"
                               /\ detector = NoDetector
       /\ (opts.test.t = "str" /\ opts.test.s # "")
          => /\ result.state # "threw"
             /\ pc # "entry" => detector.options = Captured(opts)
             /\ (BadRunCount(opts.runs) \/ opts.runs.t \in {"undef", "null"})
                => /\ spawnLog = <<>>
                   /\ pc \in {"entry", "compiled", "done"}
                   /\ pc = "done" => result = Err(RunsMessage)

C17_Witness ==
    /\ api = "run"
    /\ opts.test = Cmd("")
    /\ pc = "done"
    /\ result.state = "threw"

(***************************************************************************)
(* C18: detect(), isFlaky() and run() never throw or reject: each returns  *)
(* a Result that is either ok with a value or a failure with an error, and *)
(* a validation failure carries the validator's message.                   *)
(***************************************************************************)
C18_AlwaysAResult ==
    (pc = "done" /\ (api \in {"detect", "isFlaky"} \/ (api = "run" /\ result.state # "threw")))
    => /\ result.state \in {"ok", "err"}
       /\ result.state = "ok" => /\ result.error = Absent
                                 /\ Completed
                                 /\ api # "isFlaky" => result.value = report
       /\ result.state = "err"
          => /\ result.error # Absent
             /\ result.value = NoReport
             /\ (opts.test.t # "str" \/ opts.test.s = "")
                => result.error = "Test command must be a non-empty string"
             /\ (opts.test.t = "str" /\ opts.test.s # "" /\ ~sinkFailed)
                => result.error = IF api = "isFlaky" THEN IsFlakyRunsMessage ELSE RunsMessage

C18_Witness ==
    /\ api = "detect"
    /\ pc = "done"
    /\ sinkFailed
    /\ dfState = "rejected"
    /\ result = Err(SinkErrorMessage)

(***************************************************************************)
(* C20: every RunResult has success exactly when the exit status is 0;     *)
(* when the primitive fails before there is an exit status (it throws, the *)
(* child cannot be spawned, the output buffer is exceeded) the result has  *)
(* success false, exit code 1 and the failure message in stderr, and the   *)
(* loop counts it as a failed run.                                         *)
(***************************************************************************)
PrimitiveFailed(prim) == prim.threw \/ prim.status = Null

C20_PrimitiveFailureAbsorbed ==
    /\ Len(results) = Len(spawnLog)
    /\ \A k \in 1 .. Len(results) :
         /\ results[k].success <=> ExitedZero(spawnLog[k])
         /\ PrimitiveFailed(spawnLog[k])
            => /\ ~results[k].success
               /\ results[k].exitCode = Num(1)
               /\ results[k].stderr = spawnLog[k].message
    /\ (Completed /\ IsInteger(Requested)) => report.failedRuns = FailCount(spawnLog)

(***************************************************************************)
(* C19: a compiled detector carries nothing from one run() to the next:    *)
(* after any sequence of run(count) calls getCommand() and getOptions()    *)
(* return the construction values, and each report has totalRuns equal to  *)
(* the count of its own call with counters that started from zero.         *)
(***************************************************************************)
C19_NoStateBetweenRuns ==
    (api = "run" /\ pc # "entry" /\ result.state # "threw")
    => /\ getCommand = opts.test
       /\ getOptions.verbose = opts.verbose
       /\ getOptions.threshold = opts.threshold
       /\ getOptions.onProgress = opts.onProgress
       /\ pc \in {"loop", "finish", "clear"}
          => /\ i = Len(spawnLog)
             /\ Len(results) = Len(spawnLog)
             /\ passedRuns = PassCount(spawnLog)
             /\ failedRuns = FailCount(spawnLog)
       /\ (pc = "done" /\ RunsOutOfRange(opts.runs, MinRuns)) => result = Err(RunsMessage)
       /\ (pc = "done" /\ result.state = "ok")
          => /\ result.value.totalRuns = opts.runs
             /\ Len(spawnLog) = opts.runs.n
             /\ Len(result.value.runs) = opts.runs.n
             /\ result.value.passedRuns = PassCount(spawnLog)
             /\ result.value.failedRuns = FailCount(spawnLog)
             /\ (result.value.flakyTests # <<>>)
                <=> (PassCount(spawnLog) > 0 /\ FailCount(spawnLog) > 0)

\* run(2) returned a report of 2 runs, then run(5) one of 5 runs
C19_Witness ==
    /\ api = "run"
    /\ detector.calls >= 1
    /\ detector.last.state = "ok"
    /\ detector.last.value.totalRuns = Num(2)
    /\ detector.last.value.failedRuns > 0
    /\ pc = "done"
    /\ result.state = "ok"
    /\ result.value.totalRuns = Num(5)
    /\ result.value.passedRuns = 5

(***************************************************************************)
(* C21: the runs of one detection are strictly sequential: an execution of *)
(* the command starts only when every earlier execution has finished and   *)
(* its result has been appended and counted, one execution per step, and   *)
(* no run-start event runs ahead of the executions.                        *)
(***************************************************************************)
ExecutionStarts == pc = "loop" /\ spawnLog' # spawnLog

C21_StrictlySequential ==
    [][ExecutionStarts
       => /\ Len(spawnLog') = Len(spawnLog) + 1
          /\ i = Len(spawnLog)
          /\ Len(results) = Len(spawnLog)
          /\ passedRuns + failedRuns = Len(spawnLog)
          /\ Cardinality(EventsOfType("run-start")) <= Len(spawnLog)
          /\ Len(results') = Len(spawnLog')
          /\ results'[Len(results')] = runTestOnce(spawnLog'[Len(spawnLog')])
          /\ passedRuns' = PassCount(spawnLog')
          /\ failedRuns' = FailCount(spawnLog')]_vars

\* the third execution has finished after a failed first and a passed second
C21_Witness ==
    /\ pc = "loop"
    /\ Len(spawnLog) = 3
    /\ ~ExitedZero(spawnLog[1])
    /\ ExitedZero(spawnLog[2])
    /\ Len(results) = 3
    /\ passedRuns + failedRuns = 3

(***************************************************************************)
(* C22: the exit code of the command line program follows the detection    *)
(* outcome alone, for every format and with or without --stream: 2 when    *)
(* the command is missing or the run count or the threshold is invalid     *)
(* (report.success = false), 1 when the report is successful with flaky    *)
(* tests, 0 when it is successful without.                                 *)
(***************************************************************************)
CliEnded == api = "cli" /\ pc = "done" /\ ~cli.showHelp

C22_ExitCode ==
    (CliEnded /\ dfState # "rejected")
    => /\ cli.exitCode \in {0, 1, 2}
       /\ cli.exitCode = 2
          <=> \/ opts.test.s = ""
              \/ RunsOutOfRange(opts.runs, MinRuns)
              \/ ~ValidThreshold(opts.threshold)
       /\ cli.exitCode = 2 <=> (opts.test.s = "" \/ ~report.success)
       /\ cli.exitCode = 1 <=> (report.success /\ report.flakyTests # <<>>)
       /\ cli.exitCode = 0 <=> (report.success /\ report.flakyTests = <<>>)

(***************************************************************************)
(* C23: with --stream standard output is exactly the progress events, one  *)
(* JSON line each in emission order, the last being the complete event     *)
(* with the report, and no formatted report; without --stream it is        *)
(* exactly the formatted report.                                           *)
(***************************************************************************)
C23_StreamOutput ==
    (CliEnded /\ Completed)
    => IF cli.stream
       THEN /\ Len(cli.stdout) = Len(events)
            /\ Len(events) >= 1
            /\ \A k \in 1 .. Len(events) : cli.stdout[k] = EventLine(events[k])
            /\ events[Len(events)].type = "complete"
            /\ events[Len(events)].report = report
       ELSE cli.stdout = <<formatReport(report, cli.format)>>

(***************************************************************************)
(* C24: formatMinimal returns the testName values of report.flakyTests in  *)
(* list order, separated by single newlines, with no trailing newline and  *)
(* nothing else; it returns the empty string when flakyTests is empty or   *)
(* report.success is false, so it never shows an error message.            *)
(***************************************************************************)
C24_FormatMinimal ==
    (api = "format" /\ pc = "done" /\ cli.format = "minimal")
    => LET out == cli.stdout[1]
           n == Len(report.flakyTests)
       IN /\ Len(cli.stdout) = 1
          /\ (~report.success \/ n = 0) => out = <<>>
          /\ (report.success /\ n > 0)
             => /\ Len(out) = 2 * n - 1
                /\ \A k \in 1 .. n : out[2 * k - 1] = report.flakyTests[k].testName
                /\ \A k \in 1 .. n - 1 : out[2 * k] = "\n"
          /\ \A k \in 1 .. Len(out) : out[k] # report.error

C24_Witness ==
    /\ api = "format"
    /\ pc = "done"
    /\ cli.format = "minimal"
    /\ report.success
    /\ Len(report.flakyTests) = 2
    /\ report.flakyTests[1].testName = "Suite A"
    /\ report.flakyTests[2].testName = "Suite B"
    /\ cli.stdout = << <<"Suite A", "\n", "Suite B">> >>

(***************************************************************************)
(* C25: the progress sink is used only for 5 or more runs.  Below 5 no     *)
(* sink operation is called; from 5 on the calls are init once before the  *)
(* first run, increment once after each run, finish once after the last    *)
(* run and clear once at the end, all with one identifier, so a detection  *)
(* that returns has cleared what it initialised.                           *)
(***************************************************************************)
Increments(n) == [k \in 1 .. n |-> SinkCall("increment")]

ExpectedSinkCalls(n) ==
    <<SinkCall("init")>> \o Increments(n) \o <<SinkCall("finish"), SinkCall("clear")>>

IsPrefix(p, q) == Len(p) <= Len(q) /\ \A k \in 1 .. Len(p) : p[k] = q[k]

C25_SinkProtocol ==
    /\ (runs.t = "num" /\ Lt(runs, Num(5))) => sinkCalls = <<>>
    /\ sinkCalls # <<>>
       => /\ runs.t = "num"
          /\ ~Lt(runs, Num(5))
          /\ IsPrefix(sinkCalls, ExpectedSinkCalls(Iterations(runs)))
          /\ \A k \in 1 .. Len(sinkCalls) : sinkCalls[k].id = sinkCalls[1].id
    /\ (runs.t = "num" /\ ~Lt(runs, Num(5)))
       => /\ pc = "loop" => sinkCalls = <<SinkCall("init")>> \o Increments(Len(spawnLog))
          /\ pc = "finish"
             => sinkCalls = <<SinkCall("init")>> \o Increments(Iterations(runs))
          /\ pc = "clear"
             => sinkCalls = <<SinkCall("init")>> \o Increments(Iterations(runs))
                            \o <<SinkCall("finish")>>
          /\ Completed => /\ sinkCalls = ExpectedSinkCalls(Iterations(runs))
                          /\ Len(spawnLog) = Iterations(runs)

\* a detection of 5 runs has returned after init, 5 increments, finish, clear
C25_Witness ==
    /\ Completed
    /\ runs = Num(5)
    /\ Len(spawnLog) = 5
    /\ sinkCalls = ExpectedSinkCalls(5)
    /\ sinkFailed

(***************************************************************************)
(* C26: a detection with a valid integer run count N ends after exactly N  *)
(* executions of the command: a failed run is not retried and the loop     *)
(* does not stop early, whatever the outcomes, in isFlaky as well.         *)
(***************************************************************************)
\* a valid command and a valid integer count the model follows to the end
ValidIntegerCount ==
    /\ opts.test.t = "str"
    /\ opts.test.s # ""
    /\ opts.runs.t \in {"num", "undef"}
    /\ IsInteger(Requested)
    /\ ~RunsOutOfRange(Requested, IF api = "isFlaky" THEN 2 ELSE 1)
    /\ Requested.n <= MaxIter

ExactlyRequestedRuns ==
    ValidIntegerCount
    => /\ Len(spawnLog) <= Requested.n
       /\ pc \in {"finish", "clear"} => Len(spawnLog) = Requested.n
       /\ (pc \in {"exit", "done"} /\ dfState = "returned")
          => /\ report.success
             /\ Len(spawnLog) = Requested.n
             /\ Len(report.runs) = Requested.n
       /\ (pc \in {"exit", "done"} /\ Len(spawnLog) < Requested.n) => sinkFailed

C26_RunsToCompletion ==
    /\ []ExactlyRequestedRuns
    /\ (ValidIntegerCount /\ pc = "entry") ~> (pc = "done")

\* isFlaky went on after a failed first run and a passed second run
C26_Witness ==
    /\ api = "isFlaky"
    /\ pc = "done"
    /\ opts.runs = Num(3)
    /\ Len(spawnLog) = 3
    /\ ~ExitedZero(spawnLog[1])
    /\ ExitedZero(spawnLog[2])
    /\ result.state = "ok"

(***************************************************************************)
(* C27: for every run count the validator accepts, a non-integer one such  *)
(* as 2.5 included, the number of executions equals report.totalRuns, and  *)
(* so do report.runs.length and passedRuns + failedRuns.                   *)
(***************************************************************************)
NumEq(a, b) == a.t = "num" /\ b.t = "num" /\ a.n * b.d = b.n * a.d

C27_TotalRunsIsTheNumberOfRuns ==
    Completed
    => /\ NumEq(Num(Len(spawnLog)), report.totalRuns)
       /\ NumEq(Num(Len(report.runs)), report.totalRuns)
       /\ NumEq(Num(report.passedRuns + report.failedRuns), report.totalRuns)

(***************************************************************************)
(* C28: the command a compiled detector executes and returns from          *)
(* getCommand() is the one validated at construction: assignments to the   *)
(* options object after construction, or to an object getOptions()         *)
(* returned, change neither the command nor the options of later runs.     *)
(***************************************************************************)
C28_OptionsFixedAtConstruction ==
    (api = "run" /\ pc # "entry" /\ result.state # "threw")
    => /\ getCommand = opts.test
       /\ getOptions = Captured(opts)
       /\ config # NoConfig
          => /\ config.testCommand = opts.test
             /\ config.verbose = opts.verbose
             /\ config.onProgress = opts.onProgress
       /\ result.state = "err" => result.error = RunsMessage \/ sinkFailed

(***************************************************************************)
(* C29: classification depends on the counts only, not on the order of the *)
(* outcomes: a detection with the same run count and threshold that sees a *)
(* permutation of the outcome sequence has the same passedRuns, failedRuns *)
(* and flakyTests, and its runs are the permuted runs.  Stated for the     *)
(* exchanges of two positions, of which every permutation is a composition;*)
(* the exchanged sequence is again the outcome sequence of a detection.    *)
(***************************************************************************)
Permuted(log, p) == [k \in 1 .. Len(log) |-> log[p[k]]]

\* the permutations of 1..n that exchange two positions (or none)
Exchanges(n) ==
    {[k \in 1 .. n |-> IF k = a THEN b ELSE IF k = b THEN a ELSE k] : a, b \in 1 .. n}

C29_OrderIrrelevant ==
    (Completed /\ config.testCommand = Cmd("flaky"))
    => \A p \in Exchanges(Len(spawnLog)) :
         LET other == DetectionOf(Permuted(spawnLog, p), runs, config.threshold) IN
           /\ other.passedRuns = report.passedRuns
           /\ other.failedRuns = report.failedRuns
           /\ other.flakyTests = report.flakyTests
           /\ other.runs = Permuted(report.runs, p)

\* fail, pass, pass was seen; pass, pass, fail is one of its permutations
C29_Witness ==
    /\ Completed
    /\ Len(spawnLog) = 3
    /\ ~ExitedZero(spawnLog[1])
    /\ ExitedZero(spawnLog[2])
    /\ ExitedZero(spawnLog[3])
    /\ report.passedRuns = 2
    /\ report.failedRuns = 1
    /\ Len(report.flakyTests) = 1

(***************************************************************************)
(* C30: the returned report is a function of the outcome sequence, the run *)
(* count and the threshold only: it is the same whether or not the         *)
(* detection is verbose and whether or not an onProgress callback is given.*)
(***************************************************************************)
\* the report of a detection of r runs that sees log, by outcomes alone
ReportFor(log, r, threshold) ==
    LET d == DetectionOf(log, r, threshold) IN
      [success |-> TRUE, totalRuns |-> r, passedRuns |-> d.passedRuns,
       failedRuns |-> d.failedRuns, flakyTests |-> d.flakyTests, runs |-> d.runs,
       error |-> Absent]

C30_ReportIgnoresVerboseAndCallback ==
    Completed
    => /\ report = ReportFor(spawnLog, Requested, opts.threshold)
       /\ (pc = "done" /\ api \in {"detect", "run"})
          => result.value = report
       /\ (pc = "done" /\ api = "detectFlakiness") => result.value = report

\* a verbose detection with a callback has returned a report with a flaky test
C30_Witness ==
    /\ api = "detect"
    /\ pc = "done"
    /\ Completed
    /\ opts.verbose
    /\ opts.onProgress = "throwing"
    /\ Len(spawnLog) = 2
    /\ result.value = ReportFor(spawnLog, Num(2), opts.threshold)
    /\ Len(result.value.flakyTests) = 1

====
